---- MODULE Spec2Model ----
(***************************************************************************)
(* A model of kiss-translator-obsidian: a TranslationSession               *)
(* (src/src/translator.ts) working on a rendered tree, driven by the       *)
(* session's public methods; the plugin (src/unnamed/part_000) with its    *)
(* document session, its interface session and its handlers; and the       *)
(* functions collectBlocks, fillTemplate and fetchRegistry                 *)
(* (src/src/cloud.ts) applied to inputs of their own.                      *)
(*                                                                         *)
(* Text is a sequence of one-character strings.  The rendered tree is the  *)
(* sequence of its element nodes in document order.  JavaScript runs one   *)
(* task at a time: an action is one task, i.e. a call from the host or the *)
(* arrival of a backend response, followed by everything the code does     *)
(* until it next waits for the network.                                    *)
(***************************************************************************)
EXTENDS Integers, Sequences, FiniteSets, TLC

\* ------------------------------------------------------------ bounds
\* Number of translatable elements of the rendered document.
NBlocks == 3
\* Number of times translate() is called while an earlier call of it still
\* awaits the backend.
MaxOverlap == 1
\* Number of floating-button invocations followed in the toggle scenario.
MaxFab == 3

\* ------------------------------------------------------------ text
TRANSLATION_CLASS == "kiss-translated-block"
HIDE_ORIGINAL_CLASS == "kiss-hide-original"

\* Whether \s matches the character, for the characters of the model's texts.
IsSpace(c) == c \in {" ", "\n", "\t"}

\* text.replace(/\s+/g, " "): every maximal run of whitespace becomes one space
\* (each whitespace character followed by another one is dropped, the last of
\* a run becomes the space).
CollapseWs(text) ==
    LET marked == [i \in 1 .. Len(text) |->
                      [c |-> IF IsSpace(text[i]) THEN " " ELSE text[i],
                       drop |-> IsSpace(text[i]) /\ i < Len(text) /\ IsSpace(text[i + 1])]]
        kept == SelectSeq(marked, LAMBDA m : ~m.drop)
    IN  [i \in 1 .. Len(kept) |-> kept[i].c]

RECURSIVE TrimLeft(_)
TrimLeft(text) ==
    IF text # <<>> /\ IsSpace(Head(text)) THEN TrimLeft(Tail(text)) ELSE text

RECURSIVE TrimRight(_)
TrimRight(text) ==
    IF text # <<>> /\ IsSpace(text[Len(text)])
    THEN TrimRight(SubSeq(text, 1, Len(text) - 1))
    ELSE text

\* String.prototype.trim
Trim(text) == TrimRight(TrimLeft(text))

\* normalizeText
normalizeText(text) == Trim(CollapseWs(text))

\* The lengths between which a normalized text is translated.
MinTextLen == 2
MaxTextLen == 160

Truthy(text) == text # <<>>

\* A value of JavaScript as the code meets it in a response body or in the
\* cache.  str: it is a string; s: its characters, or for a value that is no
\* string what String(value) and an assignment to textContent make of it;
\* truthy: what !!value is.
Field(str, s) == [str |-> str, s |-> s, truthy |-> s # <<>>]
\* undefined: an absent field, an absent cache entry (null and 0 are as falsy)
Missing == Field(FALSE, <<>>)
\* The number 42 and the empty array: neither is a string, both are truthy,
\* and the array converts to the empty string.
FortyTwo == Field(FALSE, <<"4", "2">>)
EmptyArray == [str |-> FALSE, s |-> <<>>, truthy |-> TRUE]

\* ------------------------------------------------------------ rendered tree
\* Tags matched by the selector of collectBlocks.
TextualTags ==
    {"p", "li", "blockquote", "h1", "h2", "h3", "h4", "h5", "h6",
     "td", "th", "pre", "button", "label", "span", "div"}

\* The raw text of the i-th translatable element: the first and the third
\* differ in whitespace only.
DocText(i) ==
    CASE i % 3 = 1 -> <<"a", "b">>
      [] i % 3 = 2 -> <<"c", " ", "\n", "d">>
      [] OTHER     -> <<" ", "a", "b", " ">>

Blocks == 1 .. NBlocks

ShortId == NBlocks + 1
SkippedId == NBlocks + 2
FormId == NBlocks + 3
LinkId == NBlocks + 4
\* Two elements no document of the translation scenarios holds: one inside an
\* annotation node, one with an element child and no input.
NestedId == 101
ParentId == 102
SKIP_SELECTOR == ".vertical-tab-header"

\* A node of the tree, with what translation changes of it: its class, its
\* text and the hidden flag of its class list.
Element(id, cls, text) == [id |-> id, cls |-> cls, text |-> text, hidden |-> FALSE]

\* What stays as rendered.  tag: the tag name; within: the selectors sel for
\* which el.closest(sel) finds a node; kids: el.children.length; input:
\* whether el.querySelector("input, textarea, select") finds a node.
Shape(tag, within, kids, input) ==
    [tag |-> tag, within |-> within, kids |-> kids, input |-> input]

\* The document before any translation: the translatable paragraphs, then a
\* one-character paragraph, a paragraph of the settings sidebar, a label
\* holding an input and a link.
Document ==
    [i \in Blocks |-> Element(i, "", DocText(i))]
    \o << Element(ShortId, "", <<"x">>), Element(SkippedId, "", <<"a", "b">>),
          Element(FormId, "", <<"a", "b">>), Element(LinkId, "", <<"a", "b">>) >>

\* The shape of a node: of an annotation node, a div without children.
ShapeOf(id) ==
    CASE id \in Blocks \cup {ShortId} -> Shape("p", {}, 0, FALSE)
      [] id = SkippedId -> Shape("p", {SKIP_SELECTOR}, 0, FALSE)
      [] id = FormId -> Shape("label", {}, 1, TRUE)
      [] id = LinkId -> Shape("a", {}, 0, FALSE)
      [] id = NestedId -> Shape("span", {"." \o TRANSLATION_CLASS}, 0, FALSE)
      [] id = ParentId -> Shape("div", {}, 1, FALSE)
      [] OTHER -> Shape("div", {}, 0, FALSE)

OriginalIds == Blocks \cup {ShortId, SkippedId, FormId, LinkId}

\* The subtrees translate() is called on: the first k translatable elements,
\* or (k = NBlocks) the whole document.
RootOf(k) == IF k = NBlocks THEN OriginalIds ELSE 1 .. k
Roots == {RootOf(k) : k \in 0 .. NBlocks}

Range(f) == {f[x] : x \in DOMAIN f}

IndexOf(tree, id) == CHOOSE i \in 1 .. Len(tree) : tree[i].id = id

InTree(tree, id) == \E i \in 1 .. Len(tree) : tree[i].id = id

IsAnnotation(node) == node.cls = TRANSLATION_CLASS

AnnotationIds(tree) == {tree[i].id : i \in {j \in 1 .. Len(tree) : IsAnnotation(tree[j])}}

\* The original an annotation node was inserted after: its parent is that
\* original's parent.
SiblingOf(tree, i) ==
    LET before == {j \in 1 .. i : ~IsAnnotation(tree[j])}
    IN  tree[CHOOSE j \in before : \A k \in before : k <= j].id

\* Whether the node at position i is a descendant of the root.
InRoot(tree, i, root) ==
    IF IsAnnotation(tree[i]) THEN SiblingOf(tree, i) \in root ELSE tree[i].id \in root

\* document.createElement: a node identity no node of the tree and no pair uses.
FreshId(tree, translated) ==
    LET used == {tree[i].id : i \in 1 .. Len(tree)} \cup Range(translated) \cup OriginalIds
    IN  CHOOSE n \in 1 .. (Cardinality(used) + 1) : n \notin used

\* el.remove() for every el of a set of nodes
RemoveNodes(tree, ids) == SelectSeq(tree, LAMBDA node : node.id \notin ids)

\* An insertion at the end of the tree.
InsertAtEnd(tree, block, node) == Append(tree, node)

\* block.insertAdjacentElement("afterend", node)
InsertAfter(tree, block, node) ==
    IF ~InTree(tree, block) THEN tree
    ELSE LET i == IndexOf(tree, block)
         IN  SubSeq(tree, 1, i) \o <<node>> \o SubSeq(tree, i + 1, Len(tree))

\* classList.add / classList.remove of HIDE_ORIGINAL_CLASS on a set of nodes
SetHidden(tree, ids, flag) ==
    [i \in 1 .. Len(tree) |->
        IF tree[i].id \in ids THEN [tree[i] EXCEPT !.hidden = flag] ELSE tree[i]]

\* block.innerText || ""
InnerText(tree, id) == IF InTree(tree, id) THEN tree[IndexOf(tree, id)].text ELSE <<>>

\* ------------------------------------------------------------ settings
\* Selector strings for which el.closest(sel) throws.
InvalidSelectors == {"[["}

SkipSelectors == <<"", "[[", SKIP_SELECTOR>>

MakeSettings(apiType, apiUrl, apiKey, model, userPrompt, hideOriginal) ==
    [apiType |-> apiType, apiUrl |-> apiUrl, apiKey |-> apiKey, model |-> model,
     userPrompt |-> userPrompt, hideOriginal |-> hideOriginal,
     skipSelectors |-> SkipSelectors]

\* The settings objects a session is given (KissTranslatorSettings): both
\* backends fully configured, with the original shown or hidden, and one
\* object for each configuration check that can fail.
SettingsSpace ==
    {MakeSettings(t, "u", "k", "m", <<"{text}">>, h) :
        t \in {"simple", "openai"}, h \in BOOLEAN}
    \cup {MakeSettings("openai", "u", "", "m", <<"{text}">>, TRUE),
          MakeSettings("simple", "", "", "m", <<"{text}">>, FALSE)}

\* ------------------------------------------------------------ block selection
\* isInSkipArea: the first selector that matches decides; an empty selector is
\* passed over and a selector that throws is ignored.
isInSkipArea(node, settings) ==
    \E i \in 1 .. Len(settings.skipSelectors) :
        LET sel == settings.skipSelectors[i]
        IN  /\ sel # ""
            /\ sel \notin InvalidSelectors
            /\ sel \in ShapeOf(node.id).within

\* A filter that also turns down a text of exactly 160 characters.
IsBlockBelowMax(node, settings) ==
    LET text == normalizeText(node.text)
        shape == ShapeOf(node.id)
    IN  /\ shape.tag \in TextualTags
        /\ ~isInSkipArea(node, settings)
        /\ ~IsAnnotation(node)
        /\ ("." \o TRANSLATION_CLASS) \notin shape.within
        /\ ~shape.input
        /\ ~(shape.kids > 0)
        /\ Truthy(text)
        /\ ~(Len(text) < MinTextLen)
        /\ ~(Len(text) >= MaxTextLen)

\* The filter of collectBlocks, in the order of its tests.
IsBlock(node, settings) ==
    LET text == normalizeText(node.text)
        shape == ShapeOf(node.id)
    IN  /\ shape.tag \in TextualTags
        /\ ~isInSkipArea(node, settings)
        /\ ~IsAnnotation(node)
        /\ ("." \o TRANSLATION_CLASS) \notin shape.within
        /\ ~shape.input
        /\ ~(shape.kids > 0)
        /\ Truthy(text)
        /\ ~(Len(text) < MinTextLen)
        /\ ~(Len(text) > MaxTextLen)

RECURSIVE CollectFrom(_, _, _, _)
CollectFrom(tree, i, root, settings) ==
    IF i > Len(tree) THEN <<>>
    ELSE (IF InRoot(tree, i, root) /\ IsBlock(tree[i], settings)
          THEN <<tree[i].id>> ELSE <<>>)
         \o CollectFrom(tree, i + 1, root, settings)

\* collectBlocks: the selected elements of the root, in document order.
collectBlocks(tree, root, settings) == CollectFrom(tree, 1, root, settings)

\* ------------------------------------------------------------ session
\* The session's two maps are functions on the keys they hold.
EmptyPairs == [b \in {} |-> 0]
EmptyCache == [t \in {} |-> Missing]
MapSet(map, key, value) ==
    [k \in DOMAIN map \cup {key} |-> IF k = key THEN value ELSE map[k]]

\* One translate() invocation.  blocks, idx: the selected elements and the
\* position of the loop; text, via: the request it awaits or failed on; error:
\* the message it rejected with; calls: the positions it sent a request for; ins: the
\* positions it inserted an annotation for, with the annotation's text.
IdleFlow ==
    [status |-> "idle", blocks |-> <<>>, idx |-> 0, text |-> <<>>, via |-> "",
     error |-> "", calls |-> {}, ins |-> {}]

\* The messages translate() rejects with.
ConfigErrors == {"NoUrl", "NoKey", "NoModel", "NoPrompt"}
EMPTY_RESULT == "Empty"
HTTP_ERROR == "Http"
PARSE_ERROR == "Parse"

\* A restoreOriginalVisibility that leaves the class lists as they are.
restoreNothing(r) == r

\* restoreOriginalVisibility: over the pairs the map holds when it runs
restoreOriginalVisibility(r) ==
    [r EXCEPT !.tree = SetHidden(r.tree, DOMAIN r.translated, FALSE)]

\* hideOriginal
hideOriginal(r) ==
    [r EXCEPT !.tree = SetHidden(r.tree, DOMAIN r.translated, TRUE)]

\* applyOriginalVisibility
applyOriginalVisibility(r, settings) ==
    IF settings.hideOriginal THEN hideOriginal(r) ELSE restoreOriginalVisibility(r)

\* A clear() that forgets the pairs and leaves their nodes in the tree.
clearKeepingNodes(r) ==
    restoreOriginalVisibility([r EXCEPT !.translated = EmptyPairs])

\* A clear() that removes every annotation node of the tree.
clearEveryAnnotation(r) ==
    restoreOriginalVisibility(
        [r EXCEPT !.tree = RemoveNodes(r.tree, AnnotationIds(r.tree)),
                  !.translated = EmptyPairs])

\* A clear() that removes the nodes and keeps their pairs.
clearKeepingPairs(r) ==
    restoreOriginalVisibility(
        [r EXCEPT !.tree = RemoveNodes(r.tree, Range(r.translated))])

\* clear: remove the annotation nodes, empty the map, then restore visibility
clear(r) ==
    restoreOriginalVisibility(
        [r EXCEPT !.tree = RemoveNodes(r.tree, Range(r.translated)),
                  !.translated = EmptyPairs])

\* A hasTranslations() that needs two pairs to answer true.
hasSeveralTranslations(translated) == Cardinality(DOMAIN translated) > 1

\* hasTranslations
hasTranslations(translated) == Cardinality(DOMAIN translated) > 0

\* A lookup that never finds an entry.
cacheNeverHits(cache, text) == Missing

\* this.cache.get(text)
cacheGet(cache, text) == IF text \in DOMAIN cache THEN cache[text] ELSE Missing

\* The checks of translateWithOpenAI without the one of the API key.
configErrorNoKeyCheck(settings) ==
    IF settings.apiType = "openai"
    THEN IF settings.apiUrl = "" THEN "NoUrl"
         ELSE IF settings.model = "" THEN "NoModel"
         ELSE IF ~Truthy(Trim(settings.userPrompt)) THEN "NoPrompt"
         ELSE ""
    ELSE IF settings.apiUrl = "" THEN "NoUrl" ELSE ""

\* The configuration checks translateWithOpenAI and translateWithSimple make
\* before they send a request: the message thrown, or "".
configError(settings) ==
    IF settings.apiType = "openai"
    THEN IF settings.apiUrl = "" THEN "NoUrl"
         ELSE IF settings.apiKey = "" THEN "NoKey"
         ELSE IF settings.model = "" THEN "NoModel"
         ELSE IF ~Truthy(Trim(settings.userPrompt)) THEN "NoPrompt"
         ELSE ""
    ELSE IF settings.apiUrl = "" THEN "NoUrl" ELSE ""

\* The second half of translateBlock: create the annotation node, set its
\* textContent to the value translateText returned, insert it after the block
\* and register the pair.
insertTranslation(r, block, translated) ==
    LET id == FreshId(r.tree, r.translated)
        node == Element(id, TRANSLATION_CLASS, translated.s)
    IN  [r EXCEPT !.tree = InsertAfter(r.tree, block, node),
                  !.translated = MapSet(r.translated, block, id),
                  !.flow.ins = @ \cup {[i |-> r.flow.idx, text |-> translated.s]},
                  !.flow.idx = @ + 1]

RECURSIVE translateLoop(_, _)

\* A loop that notes the error of a block and goes on with the next one.
blockFailedContinue(r, settings, error) ==
    translateLoop([r EXCEPT !.flow.error = error, !.flow.idx = @ + 1], settings)

\* An error thrown while a block is translated: nothing catches it, translate()
\* rejects with it and the loop and the statement after it are not run.
blockFailed(r, settings, error) ==
    [r EXCEPT !.flow.status = "rejected", !.flow.error = error]

\* The loop of translate() from position flow.idx, as far as it runs without
\* waiting: translateBlock and translateText for each block, up to the first
\* request sent (awaiting), the first error (rejected) or the end of the
\* blocks, where applyOriginalVisibility runs (resolved).
translateLoop(r, settings) ==
    IF r.flow.idx > Len(r.flow.blocks)
    THEN applyOriginalVisibility([r EXCEPT !.flow.status = "resolved",
                                           !.flow.text = <<>>, !.flow.via = ""],
                                 settings)
    ELSE LET block == r.flow.blocks[r.flow.idx]
             text == normalizeText(InnerText(r.tree, block))
             cached == cacheGet(r.cache, text)
         IN  IF ~Truthy(text) \/ Len(text) < MinTextLen
             THEN translateLoop([r EXCEPT !.flow.idx = @ + 1], settings)
             ELSE IF cached.truthy
             THEN translateLoop(insertTranslation(r, block, cached), settings)
             ELSE IF configError(settings) # ""
             THEN blockFailed(r, settings, configError(settings))
             ELSE [r EXCEPT !.flow.status = "awaiting", !.flow.text = text,
                            !.flow.via = settings.apiType,
                            !.flow.calls = @ \cup {r.flow.idx}]

\* translate(root): clear, select the blocks, run the loop
translate(r, root, settings) ==
    LET cleared == clear(r)
        blocks == collectBlocks(cleared.tree, root, settings)
    IN  translateLoop([cleared EXCEPT !.flow = [IdleFlow EXCEPT !.blocks = blocks,
                                                                !.idx = 1]],
                      settings)

\* ------------------------------------------------------------ backends
\* The values of the field of a response body that holds the translation:
\* absent, the empty string, a blank one and a translation.
FieldValues ==
    {Missing, Field(TRUE, <<>>), Field(TRUE, <<" ">>), Field(TRUE, <<"X">>)}

\* What the backend answers.  ok: a 2xx status.  shape: the body is no JSON
\* ("invalid"), a JSON object or a JSON array.  value: for an object its
\* translatedText (simple) or choices[0].message.content (chat), for an array
\* the translatedText of its first element.
Responses ==
    {[ok |-> FALSE, shape |-> "object", value |-> Missing]}
    \cup [ok : {TRUE}, shape : {"invalid", "object", "array"}, value : FieldValues]

\* What a backend call comes to: the error thrown, or the value returned.
Outcome(error, text) == [error |-> error, text |-> text]

\* The responses with those whose field is no string.
SoloResponses ==
    Responses
    \cup [ok : {TRUE}, shape : {"object", "array"}, value : {FortyTwo, EmptyArray}]

\* translateWithSimple after the request: the value returned or the error
\* thrown.  The field of an object is returned when it is a string, the field
\* of an array's first element when it is truthy, whatever it is.
translateWithSimple(resp) ==
    IF ~resp.ok THEN Outcome(HTTP_ERROR, Missing)
    ELSE IF resp.shape = "invalid" THEN Outcome(PARSE_ERROR, Missing)
    ELSE IF resp.shape = "object" /\ resp.value.str THEN Outcome("", resp.value)
    ELSE IF resp.shape = "array" /\ resp.value.truthy THEN Outcome("", resp.value)
    ELSE Outcome("", Field(TRUE, <<>>))

\* translateWithOpenAI after the request: an array has no choices
translateWithOpenAI(resp) ==
    IF ~resp.ok THEN Outcome(HTTP_ERROR, Missing)
    ELSE IF resp.shape = "invalid" THEN Outcome(PARSE_ERROR, Missing)
    ELSE IF resp.shape = "object" /\ resp.value.str
    THEN Outcome("", Field(TRUE, Trim(resp.value.s)))
    ELSE Outcome("", Field(TRUE, <<>>))

\* if (!translatedText) of translateText
isEmptyResult(translatedText) == ~translatedText.truthy

\* The rest of translateText and translateBlock once the backend has answered
\* the request of the block at flow.idx, then the loop from the next block.
receive(r, settings, resp) ==
    LET out == IF r.flow.via = "openai" THEN translateWithOpenAI(resp)
               ELSE translateWithSimple(resp)
        block == r.flow.blocks[r.flow.idx]
    IN  IF out.error # "" THEN blockFailed(r, settings, out.error)
        ELSE IF isEmptyResult(out.text) THEN blockFailed(r, settings, EMPTY_RESULT)
        ELSE translateLoop(
                 insertTranslation(
                     [r EXCEPT !.cache = MapSet(r.cache, r.flow.text, out.text)],
                     block, out.text),
                 settings)

\* ------------------------------------------------------------ state
VARIABLES
    tree,        \* the rendered tree: its element nodes in document order
    settings,    \* the session's settings snapshot
    translated,  \* the session's map from original to annotation node
    cache,       \* the session's map from normalized text to translation
    flows,       \* the translate() invocations of the session
    overlaps,    \* history: the translate() calls made while another one waited
    roundTrip,   \* history: how far a translate() of the untouched document got
    fab,         \* history: the floating-button invocations so far
    toggle,      \* history: the last applyOriginalVisibility() calls
    plugin,      \* the plugin: its settings object, its active view, its sessions
    ui,          \* the plugin's session for the application's own interface
    dropped,     \* the document session the plugin replaced
    call         \* the last call of a function and what it returned

vars == <<tree, settings, translated, cache, flows, overlaps, roundTrip, fab,
          toggle, plugin, ui, dropped, call>>

\* What the operations of the one session leave alone.
others == <<plugin, ui, dropped, call>>

\* The invocations that can be under way together.
FlowIds == 1 .. (MaxOverlap + 1)

Settled(f) == flows[f].status \in {"resolved", "rejected"}
Awaiting(f) == flows[f].status = "awaiting"

\* A task starts only when the reactions to a settled translate() have run.
NoneSettled == \A f \in FlowIds : ~Settled(f)

Session(flow) ==
    [tree |-> tree, translated |-> translated, cache |-> cache, flow |-> flow]

\* The tree with the presentational flag of every node cleared.
Unflagged(t) == [i \in 1 .. Len(t) |-> [t[i] EXCEPT !.hidden = FALSE]]

\* The history of a round trip: its phase and, once the translate() has
\* resolved, the number of pairs it left.
NoRoundTrip == [phase |-> "none", pairs |-> 0]
RoundTripAfter(flow, pairs) ==
    CASE flow.status = "resolved" -> [phase |-> "done", pairs |-> Cardinality(DOMAIN pairs)]
      [] flow.status = "awaiting" -> [phase |-> "running", pairs |-> 0]
      [] OTHER -> NoRoundTrip

\* The history of the visibility toggle: whether the last operation on the
\* pairs was an applyOriginalVisibility() that hid the originals ("hidden"),
\* or one that showed them again after one that hid them ("shown").
NoToggle == [phase |-> "none", pairs |-> 0]
ToggleAfter(s, pairs) ==
    IF s.hideOriginal THEN [phase |-> "hidden", pairs |-> Cardinality(DOMAIN pairs)]
    ELSE IF toggle.phase = "hidden"
         THEN [phase |-> "shown", pairs |-> Cardinality(DOMAIN pairs)]
         ELSE NoToggle

\* A session as constructed: a copy of the settings, no pair, no cache entry.
NewSession(s) ==
    [settings |-> s, translated |-> EmptyPairs, cache |-> EmptyCache,
     flows |-> [f \in FlowIds |-> IdleFlow]]

\* The plugin.  settings: its settings object; view: the active Markdown
\* view; bound: the view of its document session (0: it has none); hasUi:
\* whether it has a session for the interface; unloaded: onunload() has run;
\* editing: the views without a preview element; pending: the handlers of
\* the settings tab that wait for saveSettings(); events: the handlers
\* started so far.
Plugin(s) ==
    [settings |-> s, view |-> 1, bound |-> 0, hasUi |-> FALSE, unloaded |-> FALSE,
     editing |-> {}, pending |-> [hide |-> 0, skip |-> 0], events |-> 0]

NoPlugin == Plugin(MakeSettings("simple", "", "", "", <<>>, FALSE))
NoCall == [op |-> ""]

\* One session alone: no plugin around it.
Alone ==
    /\ plugin = NoPlugin
    /\ ui = NewSession(plugin.settings)
    /\ dropped = <<>>
    /\ call = NoCall

Init ==
    /\ tree = Document
    /\ settings \in SettingsSpace
    /\ translated = EmptyPairs
    /\ cache = EmptyCache
    /\ flows = [f \in FlowIds |-> IdleFlow]
    /\ overlaps = 0
    /\ roundTrip = NoRoundTrip
    /\ fab = [n |-> 0, did |-> ""]
    /\ toggle = NoToggle
    /\ Alone

\* An updateSettings(s) that applies the visibility of the new settings.
UpdateSettingsAndApply(s) ==
    /\ NoneSettled
    /\ settings' = s
    /\ tree' = applyOriginalVisibility(Session(IdleFlow), s).tree
    /\ UNCHANGED <<translated, cache, flows, overlaps, roundTrip, fab, toggle, others>>

\* updateSettings(s)
UpdateSettings(s) ==
    /\ NoneSettled
    /\ settings' = s
    /\ UNCHANGED <<tree, translated, cache, flows, overlaps, roundTrip, fab, toggle, others>>

\* The invocation slot a new translate() takes.
FreeSlot == CHOOSE f \in FlowIds : flows[f].status = "idle" /\
                \A g \in FlowIds : flows[g].status = "idle" => f <= g

\* What the history becomes when a translate() starts: a round trip starts
\* from a tree without annotation nodes and with no other translate() under way.
RoundTripStart(r) ==
    IF AnnotationIds(tree) = {} /\ \A f \in FlowIds : flows[f].status = "idle"
    THEN RoundTripAfter(r.flow, r.translated)
    ELSE NoRoundTrip

\* The state after translate(root) has run up to its first wait.
Started(root) ==
    \E r \in {translate(Session(IdleFlow), root, settings)} :
        /\ tree' = r.tree
        /\ translated' = r.translated
        /\ cache' = r.cache
        /\ flows' = [flows EXCEPT ![FreeSlot] = r.flow]
        /\ overlaps' = IF \E f \in FlowIds : Awaiting(f) THEN overlaps + 1 ELSE overlaps
        /\ roundTrip' = RoundTripStart(r)
        /\ toggle' = NoToggle

CanStart ==
    /\ NoneSettled
    /\ (\E f \in FlowIds : Awaiting(f)) => overlaps < MaxOverlap
    /\ \E f \in FlowIds : flows[f].status = "idle"

\* translate(root)
Translate(root) ==
    /\ CanStart
    /\ Started(root)
    /\ UNCHANGED <<settings, fab, others>>

\* clear()
Clear ==
    /\ NoneSettled
    /\ \E r \in {clear(Session(IdleFlow))} :
           /\ tree' = r.tree
           /\ translated' = r.translated
    /\ roundTrip' = IF roundTrip.phase = "done"
                    THEN [roundTrip EXCEPT !.phase = "cleared"]
                    ELSE IF roundTrip.phase = "cleared" THEN NoRoundTrip
                    ELSE roundTrip
    /\ toggle' = NoToggle
    /\ UNCHANGED <<settings, cache, flows, overlaps, fab, others>>

\* applyOriginalVisibility()
ApplyOriginalVisibility ==
    /\ NoneSettled
    /\ tree' = applyOriginalVisibility(Session(IdleFlow), settings).tree
    /\ toggle' = ToggleAfter(settings, translated)
    /\ UNCHANGED <<settings, translated, cache, flows, overlaps, roundTrip, fab, others>>

\* The backend answers the request of invocation f, which goes on up to its
\* next wait.
Response(f, resp) ==
    /\ NoneSettled
    /\ Awaiting(f)
    /\ \E r \in {receive(Session(flows[f]), settings, resp)} :
           /\ tree' = r.tree
           /\ translated' = r.translated
           /\ cache' = r.cache
           /\ flows' = [flows EXCEPT ![f] = r.flow]
           /\ roundTrip' = IF roundTrip.phase = "running"
                           THEN RoundTripAfter(r.flow, r.translated)
                           ELSE roundTrip
    /\ toggle' = NoToggle
    /\ UNCHANGED <<settings, overlaps, fab, others>>

\* The caller's reaction to a settled translate(): the catch handler that
\* reports the error; the invocation is over.
Notify(f) ==
    /\ Settled(f)
    /\ flows' = [flows EXCEPT ![f] = IdleFlow]
    /\ UNCHANGED <<tree, settings, translated, cache, overlaps, roundTrip, fab,
                   toggle, others>>

\* translateUIWithFab with the plugin's settings s and the target root: the
\* session takes the settings, then clears if it has translations and
\* translates the target otherwise.
TranslateUIWithFab(s, root) ==
    /\ NoneSettled
    /\ fab.n < MaxFab
    /\ settings' = s
    /\ toggle' = NoToggle
    /\ UNCHANGED others
    /\ IF hasTranslations(translated)
       THEN /\ \E r \in {clear(Session(IdleFlow))} :
                   /\ tree' = r.tree
                   /\ translated' = r.translated
            /\ fab' = [n |-> fab.n + 1, did |-> "clear"]
            /\ UNCHANGED <<cache, flows, overlaps, roundTrip>>
       ELSE /\ (\E f \in FlowIds : Awaiting(f)) => overlaps < MaxOverlap
            /\ \E f \in FlowIds : flows[f].status = "idle"
            /\ \E r \in {translate(Session(IdleFlow), root, s)} :
                   /\ tree' = r.tree
                   /\ translated' = r.translated
                   /\ cache' = r.cache
                   /\ flows' = [flows EXCEPT ![FreeSlot] = r.flow]
            /\ overlaps' = IF \E f \in FlowIds : Awaiting(f) THEN overlaps + 1
                           ELSE overlaps
            /\ fab' = [n |-> fab.n + 1, did |-> "translate"]
            /\ UNCHANGED roundTrip

\* ------------------------------------------------------------ block selection alone
\* A text of n letters.
Letters(n) == [i \in 1 .. n |-> "a"]

\* The texts of the first paragraph: one letter, two, the longest translated
\* text wrapped in whitespace, one letter more than the longest, and blank.
ProbeTexts ==
    {<<"x">>, <<"a", "b">>, <<" ">> \o Letters(MaxTextLen) \o <<"\n", " ">>,
     Letters(MaxTextLen + 1), <<" ", "\n">>}

\* The trees collectBlocks is called on: a paragraph with one of the texts, a
\* second paragraph, and one element for each test of the filter, in either
\* order, with or without an annotation node after the first paragraph.
ProbeNodes(text, second) ==
    << Element(1, "", text), Element(2, "", second),
       Element(SkippedId, "", <<"a", "b">>), Element(FormId, "", <<"a", "b">>),
       Element(LinkId, "", <<"a", "b">>), Element(NestedId, "", <<"a", "b">>),
       Element(ParentId, "", <<"a", "b">>) >>

Reverse(seq) == [i \in 1 .. Len(seq) |-> seq[Len(seq) + 1 - i]]

ProbeTrees ==
    LET plain == {ProbeNodes(text, second) :
                      text \in ProbeTexts, second \in {<<"c", " ", " ", "d">>, Letters(MaxTextLen + 1)}}
        ordered == plain \cup {Reverse(t) : t \in plain}
    IN  ordered \cup
        {InsertAfter(t, 1, Element(FreshId(t, EmptyPairs), TRANSLATION_CLASS, <<"X", "Y">>)) :
             t \in ordered}

\* The skip selector lists of the settings: none, an empty and an invalid
\* selector only, and these followed by the selector of the sidebar.
ProbeSelectors == {<<>>, <<"", "[[">>, SkipSelectors}

\* The roots: the whole tree, and the tree without its second paragraph.
ProbeRoots ==
    {{1, 2, SkippedId, FormId, LinkId, NestedId, ParentId},
     {1, SkippedId, FormId, LinkId, NestedId, ParentId}}

InitCollect ==
    /\ tree \in ProbeTrees
    /\ settings \in {[MakeSettings("simple", "u", "", "m", <<"{text}">>, FALSE)
                          EXCEPT !.skipSelectors = sel] : sel \in ProbeSelectors}
    /\ translated = EmptyPairs
    /\ cache = EmptyCache
    /\ flows = [f \in FlowIds |-> IdleFlow]
    /\ overlaps = 0
    /\ roundTrip = NoRoundTrip
    /\ fab = [n |-> 0, did |-> ""]
    /\ toggle = NoToggle
    /\ Alone

\* collectBlocks(root): the call and the elements it returned
Collect(root) ==
    /\ call' = [op |-> "collectBlocks", root |-> root,
                result |-> collectBlocks(tree, root, settings)]
    /\ UNCHANGED <<tree, settings, translated, cache, flows, overlaps, roundTrip,
                   fab, toggle, plugin, ui, dropped>>

NextCollect == \E root \in ProbeRoots : Collect(root)

SpecCollect == InitCollect /\ [][NextCollect]_vars

\* ------------------------------------------------------------ prompt templates
\* The placeholders of a prompt template.
TEXT_PLACEHOLDER == <<"{", "t", "e", "x", "t", "}">>
FROM_PLACEHOLDER == <<"{", "f", "r", "o", "m", "}">>
TO_PLACEHOLDER == <<"{", "t", "o", "}">>

\* Whether the pattern occurs in the string at position i.
MatchesAt(str, i, pat) ==
    /\ i + Len(pat) - 1 <= Len(str)
    /\ SubSeq(str, i, i + Len(pat) - 1) = pat

\* The grave accent, which a string of the model cannot hold, by its name.
GRAVE == "grave"

RECURSIVE GetSubstitution(_, _, _, _)
\* What String.prototype.replace puts in place of the match of length n at
\* position i of str, given the replacement string: $$ stands for a dollar
\* sign, $& for the match, $ and a grave accent for what precedes it, $' for
\* what follows it; a pattern without groups leaves every other use of $ as
\* it is.
GetSubstitution(repl, str, i, n) ==
    IF repl = <<>> THEN <<>>
    ELSE IF Head(repl) = "$" /\ Len(repl) > 1 /\ repl[2] \in {"$", "&", GRAVE, "'"}
         THEN (CASE repl[2] = "$" -> <<"$">>
                 [] repl[2] = "&" -> SubSeq(str, i, i + n - 1)
                 [] repl[2] = GRAVE -> SubSeq(str, 1, i - 1)
                 [] OTHER -> SubSeq(str, i + n, Len(str)))
              \o GetSubstitution(Tail(Tail(repl)), str, i, n)
         ELSE <<Head(repl)>> \o GetSubstitution(Tail(repl), str, i, n)

RECURSIVE ReplaceFrom(_, _, _, _)
\* str.replace(/pat/g, repl) from position i on: the matches are found from
\* left to right in str and do not overlap.
ReplaceFrom(str, i, pat, repl) ==
    IF i > Len(str) THEN <<>>
    ELSE IF MatchesAt(str, i, pat)
         THEN GetSubstitution(repl, str, i, Len(pat))
              \o ReplaceFrom(str, i + Len(pat), pat, repl)
         ELSE <<str[i]>> \o ReplaceFrom(str, i + 1, pat, repl)

\* str.replace(/pat/g, repl) for a pattern that is a literal
ReplaceAll(str, pat, repl) == ReplaceFrom(str, 1, pat, repl)

\* value || fallback for strings
OrElse(value, fallback) == IF Truthy(value) THEN value ELSE fallback

\* fillTemplate: three replacements, one after the other
fillTemplate(s, template, text) ==
    ReplaceAll(
        ReplaceAll(
            ReplaceAll(template, TEXT_PLACEHOLDER, text),
            FROM_PLACEHOLDER, OrElse(s.fromLang, <<"a", "u", "t", "o">>)),
        TO_PLACEHOLDER, OrElse(s.toLang, <<"z", "h">>))

\* A settings object with its two language codes.
WithLangs(s, fromLang, toLang) ==
    [k \in DOMAIN s \cup {"fromLang", "toLang"} |->
        CASE k = "fromLang" -> fromLang
          [] k = "toLang" -> toLang
          [] OTHER -> s[k]]

\* The language codes, the templates and the block texts fillTemplate is
\* called with.
LangCodes == {<<>>, <<"e", "n">>, <<"j", "a">>}
Templates ==
    {TEXT_PLACEHOLDER,
     <<"T", ":">> \o TEXT_PLACEHOLDER \o <<"/">> \o TEXT_PLACEHOLDER,
     FROM_PLACEHOLDER \o <<">">> \o TO_PLACEHOLDER \o <<":">> \o TEXT_PLACEHOLDER,
     TO_PLACEHOLDER \o TO_PLACEHOLDER \o <<"{", "t", "e", "x", "t">>,
     <<"n", "o", "n", "e">>}
BlockTexts ==
    {<<"a", "b">>, <<"5", "$">>, <<"$", "1">>, <<"a", "$", "&">>, <<"$", "$">>,
     <<"$", GRAVE, "b">>, <<"$", "'">>, <<"a", " ">> \o FROM_PLACEHOLDER,
     TO_PLACEHOLDER, TEXT_PLACEHOLDER}

InitFill ==
    /\ tree = Document
    /\ settings \in {WithLangs(MakeSettings("openai", "u", "k", "m", t, FALSE), from, to) :
                          t \in Templates, from \in LangCodes, to \in LangCodes}
    /\ translated = EmptyPairs
    /\ cache = EmptyCache
    /\ flows = [f \in FlowIds |-> IdleFlow]
    /\ overlaps = 0
    /\ roundTrip = NoRoundTrip
    /\ fab = [n |-> 0, did |-> ""]
    /\ toggle = NoToggle
    /\ Alone

\* fillTemplate(userPrompt, text): the call and the message it returned
Fill(text) ==
    /\ call' = [op |-> "fillTemplate", template |-> settings.userPrompt, text |-> text,
                result |-> fillTemplate(settings, settings.userPrompt, text)]
    /\ UNCHANGED <<tree, settings, translated, cache, flows, overlaps, roundTrip,
                   fab, toggle, plugin, ui, dropped>>

NextFill == \E text \in BlockTexts : Fill(text)

SpecFill == InitFill /\ [][NextFill]_vars

\* ------------------------------------------------------------ plugin
\* Number of times the plugin replaces its document session.
MaxReplaced == 1
\* Number of handlers of the plugin followed: commands, presses of the button
\* and changes made in the settings tab.
MaxEvents == 3

\* findPreviewRoot of the session of a view: the preview element of the view
\* (the first view shows the first translatable element, the second the
\* others), and document.body when the view has none
findPreviewRoot(view) ==
    IF view \in plugin.editing THEN OriginalIds
    ELSE IF view = 1 THEN {1} ELSE Blocks \ {1}

\* The window when the button is pressed.  modal: the settings modal is open;
\* split: what the first vertical split of the document holds of the two
\* Markdown views ("none": the window has no such split).
Windows ==
    [modal : {FALSE}, split : {"none", "both", "first", "second"}]
    \cup {[modal |-> TRUE, split |-> "both"]}

\* The target of translateUIWithFab: the settings modal, which holds none of
\* the elements of the document, else the first vertical split with the
\* elements of the views it holds, else document.body
UiTarget(window) ==
    IF window.modal THEN {}
    ELSE CASE window.split = "both" -> Blocks
           [] window.split = "first" -> {1}
           [] window.split = "second" -> Blocks \ {1}
           [] window.split = "none" -> OriginalIds

\* What the backend answers.
PluginResponses ==
    {[ok |-> FALSE, shape |-> "object", value |-> Missing],
     [ok |-> TRUE, shape |-> "object", value |-> Field(TRUE, <<"X">>)]}

\* The plugin's document session is the session of the state; invocation f of
\* a session is put to work on the tree and the session takes back what the
\* work left.
DocSession ==
    [settings |-> settings, translated |-> translated, cache |-> cache,
     flows |-> flows]
On(sess, t, f) ==
    [tree |-> t, translated |-> sess.translated, cache |-> sess.cache,
     flow |-> sess.flows[f]]
Back(sess, r, f) ==
    [sess EXCEPT !.translated = r.translated, !.cache = r.cache, !.flows[f] = r.flow]

SetDoc(sess) ==
    /\ settings' = sess.settings
    /\ translated' = sess.translated
    /\ cache' = sess.cache
    /\ flows' = sess.flows

Histories == <<overlaps, roundTrip, fab, toggle, call>>

\* A translate() of the session has settled and its caller has not reacted.
SettledIn(sess) ==
    \E f \in FlowIds : sess.flows[f].status \in {"resolved", "rejected"}

\* Every session the plugin made has reacted to its settled translate().
AllNotified ==
    /\ ~SettledIn(DocSession)
    /\ ~SettledIn(ui)
    /\ \A k \in 1 .. Len(dropped) : ~SettledIn(dropped[k])

\* A handler of the loaded plugin starts on a user event.
Handler == ~plugin.unloaded /\ AllNotified /\ plugin.events < MaxEvents

\* The invocation slot a new translate() of the session takes: the first
\* that is idle, and 0 when MaxOverlap + 1 invocations are under way.
FreeSlotOf(sess) ==
    LET idle == {f \in FlowIds : sess.flows[f].status = "idle"}
    IN  IF idle = {} THEN 0 ELSE CHOOSE f \in idle : \A g \in idle : f <= g

\* ensureSession(view): the session the plugin works with afterwards, a new
\* one if it has none or one of another view
ensureSession(view) ==
    IF plugin.bound # view THEN NewSession(plugin.settings)
    ELSE [DocSession EXCEPT !.settings = plugin.settings]

\* The sessions the plugin has replaced after ensureSession(view).
Replaced(view) ==
    IF plugin.bound # view /\ plugin.bound # 0 THEN Append(dropped, DocSession)
    ELSE dropped

CanEnsure(view) ==
    (plugin.bound # view /\ plugin.bound # 0) => Len(dropped) < MaxReplaced

\* The user makes another Markdown view the active one: no handler of the
\* plugin runs.
ActivateView(view) ==
    /\ ~plugin.unloaded
    /\ AllNotified
    /\ view # plugin.view
    /\ plugin' = [plugin EXCEPT !.view = view]
    /\ UNCHANGED <<tree, settings, translated, cache, flows, ui, dropped, Histories>>

\* translateActive with an active Markdown view: the command and the
\* file-open handler.  Nothing keeps it from starting a translate() while an
\* earlier one of the session awaits the backend.
TranslateActive ==
    /\ Handler
    /\ CanEnsure(plugin.view)
    /\ FreeSlotOf(ensureSession(plugin.view)) # 0
    /\ \E sess \in {ensureSession(plugin.view)} :
           \E r \in {translate(On(sess, tree, FreeSlotOf(sess)),
                                findPreviewRoot(plugin.view), sess.settings)} :
               /\ tree' = r.tree
               /\ SetDoc(Back(sess, r, FreeSlotOf(sess)))
    /\ dropped' = Replaced(plugin.view)
    /\ plugin' = [plugin EXCEPT !.events = @ + 1, !.bound = plugin.view]
    /\ UNCHANGED <<ui, Histories>>

\* clearActive with an active Markdown view
ClearActive ==
    /\ Handler
    /\ CanEnsure(plugin.view)
    /\ \E sess \in {ensureSession(plugin.view)} :
           \E r \in {clear(On(sess, tree, 1))} :
               /\ tree' = r.tree
               /\ SetDoc(Back(sess, r, 1))
    /\ dropped' = Replaced(plugin.view)
    /\ plugin' = [plugin EXCEPT !.events = @ + 1, !.bound = plugin.view]
    /\ UNCHANGED <<ui, Histories>>

\* session.updateSettings(plugin settings); session.applyOriginalVisibility()
\* when the plugin has a document session
SyncVisibility(s) ==
    IF plugin.bound = 0 THEN UNCHANGED <<tree, settings>>
    ELSE /\ settings' = s
         /\ tree' = applyOriginalVisibility(On(DocSession, tree, 1), s).tree

\* toggleOriginal
ToggleOriginal ==
    /\ Handler
    /\ \E s \in {[plugin.settings EXCEPT !.hideOriginal = ~@]} :
           /\ plugin' = [plugin EXCEPT !.events = @ + 1, !.settings = s]
           /\ SyncVisibility(s)
    /\ UNCHANGED <<translated, cache, flows, ui, dropped, Histories>>

\* The interface session translateUIWithFab works with: a new one if the
\* plugin has none
uiSession == IF plugin.hasUi THEN [ui EXCEPT !.settings = plugin.settings]
             ELSE NewSession(plugin.settings)

\* translateUIWithFab of the plugin on the window: a session without pairs
\* translates the target, whether or not a translate() of it awaits the
\* backend.
FabPressed(window) ==
    /\ Handler
    /\ IF hasTranslations(uiSession.translated)
       THEN \E r \in {clear(On(uiSession, tree, 1))} :
                /\ tree' = r.tree
                /\ ui' = Back(uiSession, r, 1)
       ELSE /\ FreeSlotOf(uiSession) # 0
            /\ \E r \in {translate(On(uiSession, tree, FreeSlotOf(uiSession)),
                                 UiTarget(window), uiSession.settings)} :
                   /\ tree' = r.tree
                   /\ ui' = Back(uiSession, r, FreeSlotOf(uiSession))
    /\ plugin' = [plugin EXCEPT !.events = @ + 1, !.hasUi = TRUE]
    /\ UNCHANGED <<settings, translated, cache, flows, dropped, Histories>>

\* onunload
Onunload ==
    /\ ~plugin.unloaded
    /\ AllNotified
    /\ \E r \in {IF plugin.bound = 0 THEN On(DocSession, tree, 1)
                   ELSE clear(On(DocSession, tree, 1))} :
           \E q \in {IF plugin.hasUi THEN clear(On(ui, r.tree, 1))
                       ELSE On(ui, r.tree, 1)} :
               /\ tree' = q.tree
               /\ translated' = r.translated
               /\ ui' = Back(ui, q, 1)
    /\ plugin' = [plugin EXCEPT !.bound = 0, !.hasUi = FALSE, !.unloaded = TRUE]
    /\ UNCHANGED <<settings, cache, flows, dropped, Histories>>

\* ---- the settings tab
\* What is typed into the field of the skip selectors, cut at the line ends
\* and commas: each piece is a sequence of blanks and selectors.
TypedSelectors ==
    {<< <<>> >>,
     << <<" ", "[[">>, <<" ">>, <<SKIP_SELECTOR, " ">> >>}

\* The string a text typed into a field is a value of: the fields of the
\* settings are strings, the texts typed are sequences of what was typed.
RECURSIVE AsString(_)
AsString(text) == IF text = <<>> THEN "" ELSE Head(text) \o AsString(Tail(text))

\* value.split(/\n|,/).map((s) => s.trim()).filter(Boolean) for the pieces
ParseSelectors(pieces) ==
    LET trimmed == [i \in 1 .. Len(pieces) |-> Trim(pieces[i])]
        kept == SelectSeq(trimmed, Truthy)
    IN  [i \in 1 .. Len(kept) |-> AsString(kept[i])]

\* The fields whose onChange assigns and saves, with the values entered: the
\* API type chosen from the list; blanks and a name typed for the API URL,
\* the API key and the model; a template typed for the user prompt.
SettingChanges ==
    {<<"apiType", "simple">>, <<"apiType", "openai">>}
    \cup {<<"apiUrl", typed>> : typed \in {<<" ">>, <<" ", "u", " ">>}}
    \cup {<<"apiKey", typed>> : typed \in {<<" ">>, <<" ", "k">>}}
    \cup {<<"model", typed>> : typed \in {<<" ">>, <<"m", " ">>}}
    \cup {<<"userPrompt", typed>> : typed \in {<<" ">>, <<"{text}">>}}

\* onChange of API type, API URL, API key, model and user prompt: the field
\* of the plugin's settings object is assigned, for the URL, the key and the
\* model value.trim(); what follows saveSettings() is nothing.  (The other
\* fields of the tab are no fields of the settings here.)
SettingChanged(field, value) ==
    LET assigned == IF field \in {"apiUrl", "apiKey", "model"}
                    THEN AsString(Trim(value))
                    ELSE value
    IN  /\ Handler
        /\ plugin.settings[field] # assigned
        /\ plugin' = [plugin EXCEPT !.events = @ + 1, !.settings[field] = assigned]
        /\ UNCHANGED <<tree, settings, translated, cache, flows, ui, dropped, Histories>>

\* onChange of the hide-original toggle, up to await saveSettings()
HideOriginalChanged(value) ==
    /\ Handler
    /\ plugin' = [plugin EXCEPT !.events = @ + 1, !.settings.hideOriginal = value,
                                 !.pending.hide = @ + 1]
    /\ UNCHANGED <<tree, settings, translated, cache, flows, ui, dropped, Histories>>

\* ... and after it: the document session the plugin has then takes the
\* settings the plugin has then and applies the visibility.
HideOriginalSaved ==
    /\ AllNotified
    /\ plugin.pending.hide > 0
    /\ plugin' = [plugin EXCEPT !.pending.hide = @ - 1]
    /\ SyncVisibility(plugin.settings)
    /\ UNCHANGED <<translated, cache, flows, ui, dropped, Histories>>

\* onChange of the skip selectors, up to await saveSettings(): the settings
\* object gets a new list
SkipSelectorsChanged(typed) ==
    /\ Handler
    /\ plugin' = [plugin EXCEPT !.events = @ + 1,
                                 !.settings.skipSelectors = ParseSelectors(typed),
                                 !.pending.skip = @ + 1]
    /\ UNCHANGED <<tree, settings, translated, cache, flows, ui, dropped, Histories>>

\* ... and after it: updateSettings on the document session and on the
\* interface session the plugin has then.
SkipSelectorsSaved ==
    /\ AllNotified
    /\ plugin.pending.skip > 0
    /\ plugin' = [plugin EXCEPT !.pending.skip = @ - 1]
    /\ settings' = IF plugin.bound = 0 THEN settings ELSE plugin.settings
    /\ ui' = IF plugin.hasUi THEN [ui EXCEPT !.settings = plugin.settings] ELSE ui
    /\ UNCHANGED <<tree, translated, cache, flows, dropped, Histories>>

\* ---- the backend and the reactions
\* The backend answers the request of invocation f of the document session.
DocResponse(f, resp) ==
    /\ AllNotified
    /\ flows[f].status = "awaiting"
    /\ \E r \in {receive(On(DocSession, tree, f), settings, resp)} :
           /\ tree' = r.tree
           /\ SetDoc(Back(DocSession, r, f))
    /\ UNCHANGED <<plugin, ui, dropped, Histories>>

\* It answers the request of an invocation of the interface session.
UiResponse(f, resp) ==
    /\ AllNotified
    /\ ui.flows[f].status = "awaiting"
    /\ \E r \in {receive(On(ui, tree, f), ui.settings, resp)} :
           /\ tree' = r.tree
           /\ ui' = Back(ui, r, f)
    /\ UNCHANGED <<settings, translated, cache, flows, plugin, dropped, Histories>>

\* It answers the request of an invocation of a replaced session.
DroppedResponse(k, f, resp) ==
    /\ AllNotified
    /\ dropped[k].flows[f].status = "awaiting"
    /\ \E r \in {receive(On(dropped[k], tree, f), dropped[k].settings, resp)} :
           /\ tree' = r.tree
           /\ dropped' = [dropped EXCEPT ![k] = Back(dropped[k], r, f)]
    /\ UNCHANGED <<settings, translated, cache, flows, plugin, ui, Histories>>

\* The invocations of a session once the catch handlers of the settled ones
\* have run.
Reacted(sess) ==
    [sess EXCEPT !.flows = [f \in FlowIds |->
        IF sess.flows[f].status \in {"resolved", "rejected"} THEN IdleFlow
        ELSE sess.flows[f]]]

\* The catch handler of a settled translate() of one of the sessions.
PluginNotify ==
    /\ ~AllNotified
    /\ flows' = Reacted(DocSession).flows
    /\ ui' = Reacted(ui)
    /\ dropped' = [k \in 1 .. Len(dropped) |-> Reacted(dropped[k])]
    /\ UNCHANGED <<tree, settings, translated, cache, plugin, Histories>>

InitPlugin ==
    /\ tree = Document
    /\ plugin \in {[Plugin(MakeSettings("openai", "u", "k", "m", <<"{text}">>, h))
                         EXCEPT !.editing = e] : h \in BOOLEAN, e \in {{}, {2}}}
    /\ settings = plugin.settings
    /\ translated = EmptyPairs
    /\ cache = EmptyCache
    /\ flows = [f \in FlowIds |-> IdleFlow]
    /\ ui = NewSession(plugin.settings)
    /\ dropped = <<>>
    /\ overlaps = 0
    /\ roundTrip = NoRoundTrip
    /\ fab = [n |-> 0, did |-> ""]
    /\ toggle = NoToggle
    /\ call = NoCall

NextPlugin ==
    \/ \E view \in {1, 2} : ActivateView(view)
    \/ TranslateActive
    \/ ClearActive
    \/ ToggleOriginal
    \/ \E window \in Windows : FabPressed(window)
    \/ Onunload
    \/ \E change \in SettingChanges : SettingChanged(change[1], change[2])
    \/ \E value \in BOOLEAN : HideOriginalChanged(value)
    \/ HideOriginalSaved
    \/ \E typed \in TypedSelectors : SkipSelectorsChanged(typed)
    \/ SkipSelectorsSaved
    \/ \E f \in FlowIds, resp \in PluginResponses : DocResponse(f, resp)
    \/ \E f \in FlowIds, resp \in PluginResponses : UiResponse(f, resp)
    \/ \E k \in 1 .. Len(dropped), f \in FlowIds, resp \in PluginResponses :
           DroppedResponse(k, f, resp)
    \/ PluginNotify

SpecPlugin == InitPlugin /\ [][NextPlugin]_vars

\* ------------------------------------------------------------ cloud registry
\* An entry of a registry response: the values of four of its fields, an
\* absent or null field (and an entry that is null) being Missing.
Raw(scope, id, downloadUrl, url) ==
    [scope |-> scope, id |-> id, downloadUrl |-> downloadUrl, url |-> url]

\* What normalizeMeta returns for an entry it turns down.
Null == [id |-> <<>>, scope |-> <<>>, downloadUrl |-> <<>>]

\* a || b for values
Or(a, b) == IF a.truthy THEN a ELSE b

\* normalizeMeta: the id, the scope and the download URL of the entry.
\* String(a || b || "").trim() for the scope and the URL, String(id || scope)
\* for the id, the scope being truthy where the id is computed.
normalizeMeta(raw) ==
    LET scope == Trim(Or(raw.scope, Or(raw.id, Field(TRUE, <<>>))).s)
        downloadUrl == Trim(Or(raw.downloadUrl, Or(raw.url, Field(TRUE, <<>>))).s)
    IN  IF ~Truthy(scope) \/ ~Truthy(downloadUrl) THEN Null
        ELSE [id |-> Or(raw.id, Field(TRUE, scope)).s, scope |-> scope,
              downloadUrl |-> downloadUrl]

\* The entries of the response body: the array under dictionaries, the body
\* when it is an array, and none otherwise.
RegistryItems(resp) ==
    IF resp.shape \in {"dictionaries", "array"} THEN resp.items ELSE <<>>

\* fetchRegistry(url) given the response to its request: whether it sent the
\* request, whether it threw, and the list it returned.
fetchRegistry(url, resp) ==
    IF url = "" THEN [requested |-> FALSE, threw |-> FALSE, result |-> <<>>]
    ELSE IF resp.status < 200 \/ resp.status >= 300
         THEN [requested |-> TRUE, threw |-> TRUE, result |-> <<>>]
         ELSE [requested |-> TRUE, threw |-> FALSE,
               result |-> SelectSeq([i \in 1 .. Len(RegistryItems(resp)) |->
                                        normalizeMeta(RegistryItems(resp)[i])],
                                    LAMBDA meta : meta # Null)]

\* The entries of the registry responses: every combination of an absent, an
\* empty, a blank, a plain and a padded scope, a number and an empty array
\* with ids and download addresses of these kinds; the lists hold up to two
\* entries.
Str(s) == Field(TRUE, s)
RawEntries ==
    {Raw(scope, id, downloadUrl, url) :
        scope \in {Missing, Str(<<>>), Str(<<" ">>), Str(<<"s">>), Str(<<" ", "s", " ">>),
                   FortyTwo, EmptyArray},
        id \in {Missing, Str(<<" ">>), Str(<<"i">>), FortyTwo, EmptyArray},
        downloadUrl \in {Missing, Str(<<" ">>), Str(<<" ", "d">>), FortyTwo},
        url \in {Missing, Str(<<"w">>)}}
RegistryLists ==
    {<<>>} \cup {<<raw>> : raw \in RawEntries}
    \cup {<<raw, second>> :
              raw \in RawEntries,
              second \in {Raw(Str(<<"t">>), Missing, Str(<<"e">>), Missing),
                          Raw(Missing, Missing, Str(<<"e">>), Missing),
                          Raw(Str(<<"s">>), Str(<<"i">>), Missing, Str(<<"w">>))}}
RegistryResponses ==
    [status : {200, 299}, shape : {"dictionaries", "array"}, items : RegistryLists]
    \cup [status : {199, 200, 300, 404}, shape : {"other"}, items : {<<>>}]

InitRegistry ==
    /\ tree = Document
    /\ settings = NoPlugin.settings
    /\ translated = EmptyPairs
    /\ cache = EmptyCache
    /\ flows = [f \in FlowIds |-> IdleFlow]
    /\ overlaps = 0
    /\ roundTrip = NoRoundTrip
    /\ fab = [n |-> 0, did |-> ""]
    /\ toggle = NoToggle
    /\ Alone

\* fetchRegistry(url), the registry answering with resp
FetchRegistry(url, resp) ==
    /\ call = NoCall
    /\ call' = [op |-> "fetchRegistry", url |-> url, resp |-> resp,
                out |-> fetchRegistry(url, resp)]
    /\ UNCHANGED <<tree, settings, translated, cache, flows, overlaps, roundTrip,
                   fab, toggle, plugin, ui, dropped>>

NextRegistry ==
    \E url \in {"", "u"}, resp \in RegistryResponses : FetchRegistry(url, resp)

SpecRegistry == InitRegistry /\ [][NextRegistry]_vars

\* ------------------------------------------------------------ next-state relations
Next ==
    \/ \E s \in SettingsSpace : UpdateSettings(s)
    \/ \E root \in Roots : Translate(root)
    \/ Clear
    \/ ApplyOriginalVisibility
    \/ \E f \in FlowIds, resp \in Responses : Response(f, resp)
    \/ \E f \in FlowIds : Notify(f)

Spec == Init /\ [][Next]_vars

\* No translate() of the session is under way or just settled.
Quiet == \A f \in FlowIds : flows[f].status = "idle"

\* The session used one operation at a time: its caller starts an operation
\* only when the translate() before it has settled and been reacted to.
NextSolo ==
    \/ \E s \in SettingsSpace : Quiet /\ UpdateSettings(s)
    \/ \E root \in Roots : Quiet /\ Translate(root)
    \/ Quiet /\ Clear
    \/ Quiet /\ ApplyOriginalVisibility
    \/ \E f \in FlowIds, resp \in SoloResponses : Response(f, resp)
    \/ \E f \in FlowIds : Notify(f)

SpecSolo == Init /\ [][NextSolo]_vars

\* The session and the settings object of its caller: the session is made
\* with the object, the caller changes fields of the object and calls
\* updateSettings with it when it chooses to.
InitCaller ==
    /\ tree = Document
    /\ plugin \in {Plugin(s) : s \in SettingsSpace}
    /\ settings = plugin.settings
    /\ translated = EmptyPairs
    /\ cache = EmptyCache
    /\ flows = [f \in FlowIds |-> IdleFlow]
    /\ overlaps = 0
    /\ roundTrip = NoRoundTrip
    /\ fab = [n |-> 0, did |-> ""]
    /\ toggle = NoToggle
    /\ ui = NewSession(NoPlugin.settings)
    /\ dropped = <<>>
    /\ call = NoCall

\* The caller assigns to fields of its settings object.
CallerChanges(s) ==
    /\ NoneSettled
    /\ s # plugin.settings
    /\ plugin' = [plugin EXCEPT !.settings = s]
    /\ UNCHANGED <<tree, settings, translated, cache, flows, overlaps, roundTrip,
                   fab, toggle, ui, dropped, call>>

NextCaller ==
    \/ \E s \in SettingsSpace : CallerChanges(s)
    \/ UpdateSettings(plugin.settings)
    \/ \E root \in Roots : Quiet /\ Translate(root)
    \/ Quiet /\ Clear
    \/ \E f \in FlowIds, resp \in Responses : Response(f, resp)
    \/ \E f \in FlowIds : Notify(f)

SpecCaller == InitCaller /\ [][NextCaller]_vars

\* The session behind the floating button: the button is its only caller.
NextFab ==
    \/ \E s \in SettingsSpace, root \in Roots : TranslateUIWithFab(s, root)
    \/ \E f \in FlowIds, resp \in Responses : Response(f, resp)
    \/ \E f \in FlowIds : Notify(f)

SpecFab == Init /\ [][NextFab]_vars

\* ------------------------------------------------------------ properties
IsHidden(t, id) == \E i \in 1 .. Len(t) : t[i].id = id /\ t[i].hidden

\* The annotation nodes of the tree whose preceding original is the block.
AnnotationsOf(t, block) ==
    {t[i].id : i \in {j \in 1 .. Len(t) : IsAnnotation(t[j]) /\ SiblingOf(t, j) = block}}

\* C1: in every reachable state each original has at most one annotation node
\* in the tree, and the annotation nodes the session inserted that are still in
\* the tree are exactly the values of its pair map.
C1_OneAnnotationPerOriginal ==
    /\ \A b \in OriginalIds : Cardinality(AnnotationsOf(tree, b)) <= 1
    /\ AnnotationIds(tree) = Range(translated)

\* C2: after clear() none of the originals that were paired before the call
\* carries the hidden flag.
C2_ClearRestoresVisibility ==
    [][Clear => \A b \in DOMAIN translated : ~IsHidden(tree', b)]_vars

\* C4: a session has at most one backend request in flight at any moment.
C4_OneRequestInFlight ==
    Cardinality({f \in FlowIds : Awaiting(f)}) <= 1

\* C6: when translate() has settled, resolved or rejected, every original of
\* the pair map is hidden if hideOriginal is set and not hidden otherwise.
C6_VisibilityAppliedWhenSettled ==
    \A f \in FlowIds :
        Settled(f) => \A b \in DOMAIN translated : IsHidden(tree, b) = settings.hideOriginal

\* C3: a translate() of the untranslated document that ran to completion with
\* no other translate() under way, followed by clear(), leaves the tree with
\* the nodes and texts of the document (flags aside) and the pair map empty.
C3_RoundTrip ==
    roundTrip.phase = "cleared" =>
        /\ Unflagged(tree) = Document
        /\ DOMAIN translated = {}

\* A round trip in which every translatable element of the document got its
\* annotation.
C3_Witness ==
    /\ roundTrip.phase = "cleared"
    /\ roundTrip.pairs = NBlocks

\* The normalized text of the block at position i of an invocation.
TextAt(flow, i) == normalizeText(InnerText(tree, flow.blocks[i]))

InsertedAt(flow) == {x.i : x \in flow.ins}

\* An invocation that failed at its block idx is rejected with the error,
\* sent no request past that block and inserted nothing from it on.
C5_Aborted ==
    \A f \in FlowIds :
        flows[f].error # "" =>
            /\ flows[f].status = "rejected"
            /\ flows[f].calls \subseteq 1 .. flows[f].idx
            /\ InsertedAt(flows[f]) \subseteq 1 .. (flows[f].idx - 1)

\* The step in which an invocation rejects keeps what the invocation inserted
\* in it and, when the invocation was under way before, removes no pair and
\* no annotation node.
C5_NoRollback ==
    \A f \in FlowIds :
        (flows[f].status # "rejected" /\ flows'[f].status = "rejected") =>
            /\ \A i \in InsertedAt(flows'[f]) \ InsertedAt(flows[f]) :
                   /\ flows'[f].blocks[i] \in DOMAIN translated'
                   /\ translated'[flows'[f].blocks[i]] \in AnnotationIds(tree')
            /\ flows[f].status = "awaiting" =>
                   /\ DOMAIN translated \subseteq DOMAIN translated'
                   /\ AnnotationIds(tree) \subseteq AnnotationIds(tree')

\* C5: when the k-th selected block fails the error reaches the caller, no
\* request is sent and no annotation inserted for a later block, and the
\* annotations inserted before stay in the tree and in the pair map.
C5_AbortWithoutRollback == []C5_Aborted /\ [][C5_NoRollback]_vars

\* An invocation rejected at its second block of three, the annotation of the
\* first still paired.
C5_Witness ==
    \E f \in FlowIds :
        /\ flows[f].status = "rejected"
        /\ Len(flows[f].blocks) = 3
        /\ flows[f].idx = 2
        /\ InsertedAt(flows[f]) = {1}
        /\ flows[f].blocks[1] \in DOMAIN translated
        /\ translated[flows[f].blocks[1]] \in AnnotationIds(tree)

C7_RepeatsAreServedFromCache ==
    \A f \in FlowIds :
        \A i \in flows[f].calls :
            \A j \in 1 .. (i - 1) : TextAt(flows[f], j) # TextAt(flows[f], i)

\* A request is sent only for a text the cache does not hold.
C7_CachedTextsAreNotRequested ==
    \A f \in FlowIds :
        \A i \in flows'[f].calls \ flows[f].calls :
            TextAt(flows'[f], i) \notin DOMAIN cache'

\* The blocks of an invocation with the same normalized text got annotations
\* with the same translated text (stated, as the original claim, for the
\* sessions no translate() of which ever overlapped another).
C7_SameTextSameTranslation ==
    \A f \in FlowIds :
        overlaps = 0 =>
            \A x, y \in flows[f].ins :
                TextAt(flows[f], x.i) = TextAt(flows[f], y.i) => x.text = y.text

ChatWithoutKey(s) == s.apiType = "openai" /\ s.apiKey = ""

\* The positions of an invocation's blocks whose text the cache does not hold.
Uncached(flow, c) == {i \in 1 .. Len(flow.blocks) : TextAt(flow, i) \notin DOMAIN c}

Least(set) == CHOOSE i \in set : \A j \in set : i <= j

\* The step is a call of translate(): invocation f is under way or settled
\* after it and was not before.
StartedNow(f) == flows[f].status = "idle" /\ flows'[f].status # "idle"

\* The original claim C8: with the chat-style backend and no API key,
\* translate() rejects with a configuration error, sends no request and
\* leaves the pair map empty, whatever the root and the cache.
C8_RejectsWithEmptyPairs ==
    [][\A f \in FlowIds :
           (StartedNow(f) /\ ChatWithoutKey(settings')) =>
               /\ flows'[f].status = "rejected"
               /\ flows'[f].error \in ConfigErrors
               /\ flows'[f].calls = {}
               /\ DOMAIN translated' = {}]_vars

\* C8 as amended: with the chat-style backend and no API key, translate()
\* sends no request; it rejects with a configuration error at its first
\* block whose text is not cached, the blocks before it annotated from the
\* cache and paired, and resolves with every block paired when there is none.
C8_RejectsAtFirstUncached ==
    [][\A f \in FlowIds :
           (StartedNow(f) /\ ChatWithoutKey(settings')) =>
               LET flow == flows'[f]
                   miss == Uncached(flow, cache)
               IN  /\ flow.calls = {}
                   /\ cache' = cache
                   /\ IF miss = {}
                      THEN /\ flow.status = "resolved"
                           /\ DOMAIN translated' = Range(flow.blocks)
                      ELSE /\ flow.status = "rejected"
                           /\ flow.error \in ConfigErrors
                           /\ flow.idx = Least(miss)
                           /\ DOMAIN translated' =
                                  {flow.blocks[i] : i \in 1 .. (Least(miss) - 1)}]_vars

\* A translate() without API key that annotated a cached block and then
\* rejected for the missing key.
C8_Witness ==
    \E f \in FlowIds :
        /\ ChatWithoutKey(settings)
        /\ flows[f].status = "rejected"
        /\ flows[f].error = "NoKey"
        /\ flows[f].calls = {}
        /\ flows[f].idx = 2
        /\ DOMAIN translated = {flows[f].blocks[1]}

\* A response the claim C9 calls empty: a 2xx JSON body whose translated-text
\* field is missing or empty as a text (simple), or whose content is missing,
\* no string or blank (chat).
RECURSIVE IsBlank(_)
IsBlank(text) == text = <<>> \/ (IsSpace(Head(text)) /\ IsBlank(Tail(text)))

EmptyAnswer(via, resp) ==
    /\ resp.ok
    /\ resp.shape # "invalid"
    /\ IF via = "openai"
       THEN resp.shape = "array" \/ ~resp.value.str \/ IsBlank(resp.value.s)
       ELSE resp.value.s = <<>>

\* C9: when the backend's result for a block is empty, translate() rejects
\* with the empty-translation error, no annotation is inserted for the block
\* and no cache entry is stored for its text.
C9_EmptyResultRejects ==
    [][\A f \in FlowIds, resp \in SoloResponses :
           (/\ Awaiting(f) /\ flows'[f] # flows[f]
            /\ EmptyAnswer(flows[f].via, resp)
            /\ Response(f, resp)) =>
               /\ flows'[f].status = "rejected"
               /\ flows'[f].error = EMPTY_RESULT
               /\ flows'[f].ins = flows[f].ins
               /\ tree' = tree
               /\ translated' = translated
               /\ cache' = cache]_vars

\* The step is an invocation of translateUIWithFab.
FabStep == fab'.n = fab.n + 1

\* An invocation of the button on a session with translations clears them
\* and starts no translation; one on a session without starts a translation
\* and removes nothing; the first translates, and the second, on a target
\* that has translations, leaves no pair and no annotation node.
C10_Toggle ==
    FabStep =>
        /\ hasTranslations(translated) <=> DOMAIN translated # {}
        /\ DOMAIN translated # {} =>
               /\ fab'.did = "clear"
               /\ DOMAIN translated' = {}
               /\ AnnotationIds(tree') \cap Range(translated) = {}
               /\ flows' = flows
        /\ DOMAIN translated = {} =>
               /\ fab'.did = "translate"
               /\ \E f \in FlowIds : StartedNow(f)
               /\ AnnotationIds(tree) \subseteq AnnotationIds(tree')
        /\ fab.n = 0 => fab'.did = "translate"
        /\ (fab.n = 1 /\ DOMAIN translated # {}) =>
               DOMAIN translated' = {} /\ AnnotationIds(tree') = {}

\* C10: hasTranslations() is true iff the pair map is non-empty, and the
\* single-button toggle built on it alternates between translating and clearing.
C10_ToggleAlternates == [][C10_Toggle]_vars

\* The second invocation of the button has cleared what the first translated.
C10_Witness ==
    /\ fab = [n |-> 2, did |-> "clear"]
    /\ DOMAIN translated = {}
    /\ AnnotationIds(tree) = {}
    /\ DOMAIN cache # {}

\* Every original of the pair map carries the hidden flag (flag = TRUE), or
\* none does.
AllPaired(t, pairs, flag) == \A b \in DOMAIN pairs : IsHidden(t, b) = flag

\* After applyOriginalVisibility() every paired original is hidden iff
\* hideOriginal is set; the pairs, the cache, the nodes of the tree and their
\* texts are as before; a second call changes nothing.
C11_Applied ==
    ApplyOriginalVisibility =>
        /\ AllPaired(tree', translated', settings.hideOriginal)
        /\ translated' = translated
        /\ cache' = cache
        /\ Unflagged(tree') = Unflagged(tree)
        /\ \A i \in 1 .. Len(tree) : IsAnnotation(tree[i]) => tree'[i] = tree[i]
        /\ applyOriginalVisibility(
               [tree |-> tree', translated |-> translated', cache |-> cache',
                flow |-> IdleFlow], settings').tree = tree'

\* As long as the pairs are those of the last applyOriginalVisibility(), the
\* originals are hidden after a call with hideOriginal set, and shown after a
\* call with hideOriginal unset that followed one with it set.
C11_Toggled ==
    /\ toggle.phase = "hidden" => AllPaired(tree, translated, TRUE)
    /\ toggle.phase = "shown" => AllPaired(tree, translated, FALSE)

\* C11: applyOriginalVisibility() hides every paired original iff hideOriginal
\* is set, shows them all again when called with hideOriginal unset after it
\* was applied with it set, for every number of pairs, does twice what it does
\* once and changes neither the pairs, the cache nor the annotation nodes.
C11_ReversibleToggle == []C11_Toggled /\ [][C11_Applied]_vars

\* Every translatable element is paired and shown again after having been
\* hidden.
C11_Witness ==
    /\ toggle = [phase |-> "shown", pairs |-> NBlocks]
    /\ AllPaired(tree, translated, FALSE)
    /\ Cardinality(DOMAIN translated) = NBlocks

\* C12: clear() leaves the pair map empty and none of the annotation nodes it
\* tracked in the tree, keeps the cache, and a second clear() right after it
\* changes neither the tree, the map nor the cache.
C12_ClearIdempotent ==
    [][Clear =>
           LET after == [tree |-> tree', translated |-> translated',
                         cache |-> cache', flow |-> IdleFlow]
           IN  /\ DOMAIN translated' = {}
               /\ AnnotationIds(tree') \cap Range(translated) = {}
               /\ cache' = cache
               /\ clear(after) = after]_vars

\* The state a clear() left after a translation of two elements that had
\* hidden them: no pair, no annotation node, the cache kept.
C12_Witness ==
    /\ roundTrip = [phase |-> "cleared", pairs |-> 2]
    /\ DOMAIN translated = {}
    /\ AnnotationIds(tree) = {}
    /\ DOMAIN cache # {}
    /\ \E b \in Blocks : IsHidden(tree, b)

\* What the claim C13 asks of a selected element: a textual tag, not in or at
\* a node that one of the valid skip selectors matches, no annotation node and
\* not inside one, no input-capable control inside, no element child, and a
\* normalized text of 2 to 160 characters.
Selectable(node, s) ==
    LET shape == ShapeOf(node.id)
        valid == {s.skipSelectors[i] : i \in 1 .. Len(s.skipSelectors)}
                     \ (InvalidSelectors \cup {""})
        length == Len(normalizeText(node.text))
    IN  /\ shape.tag \in TextualTags
        /\ shape.within \cap valid = {}
        /\ node.cls # TRANSLATION_CLASS
        /\ ("." \o TRANSLATION_CLASS) \notin shape.within
        /\ ~shape.input
        /\ shape.kids = 0
        /\ length >= 2
        /\ length <= 160

\* The positions in the tree of the selectable descendants of the root.
SelectablePositions(root) ==
    {i \in 1 .. Len(tree) : InRoot(tree, i, root) /\ Selectable(tree[i], settings)}

\* The result of a call lists the selectable descendants of its root, each
\* once, in document order.
C13_Selected ==
    call.op = "collectBlocks" =>
        /\ {call.result[k] : k \in 1 .. Len(call.result)} =
               {tree[i].id : i \in SelectablePositions(call.root)}
        /\ Len(call.result) = Cardinality(SelectablePositions(call.root))
        /\ \A k, l \in 1 .. Len(call.result) :
               k < l => IndexOf(tree, call.result[k]) < IndexOf(tree, call.result[l])

\* C13: collectBlocks(root) returns exactly the selectable descendants of the
\* root, each once and in document order, with an invalid skip selector
\* matching nothing, and it leaves the tree as it is.
C13_BlockSelection == []C13_Selected /\ [][tree' = tree]_vars

\* A call on a tree with an annotation node and the sidebar selector set that
\* returned the two paragraphs, the first of 160 characters once normalized.
C13_Witness ==
    /\ call.op = "collectBlocks"
    /\ call.result = <<1, 2>>
    /\ Len(normalizeText(InnerText(tree, 1))) = MaxTextLen
    /\ AnnotationIds(tree) # {}
    /\ settings.skipSelectors = SkipSelectors

\* The positions of an invocation for which it sent a request or inserted an
\* annotation.
Processed(flow) == flow.calls \cup InsertedAt(flow)

\* When translate() has resolved, each of its blocks is a key of the pair
\* map, the node after it in the tree is the annotation node it is paired
\* with, and that node's text is the translation the invocation obtained for
\* the block, which is the one the cache holds for its normalized text.
C14_Annotated ==
    \A f \in FlowIds :
        flows[f].status = "resolved" =>
            \A i \in 1 .. Len(flows[f].blocks) :
                LET b == flows[f].blocks[i]
                    at == IndexOf(tree, b)
                IN  /\ b \in DOMAIN translated
                    /\ at < Len(tree)
                    /\ tree[at + 1].id = translated[b]
                    /\ IsAnnotation(tree[at + 1])
                    /\ [i |-> i, text |-> tree[at + 1].text] \in flows[f].ins
                    /\ tree[at + 1].text = cacheGet(cache, TextAt(flows[f], i)).s

\* The blocks are taken in the order of the selection: a position is
\* processed after all the positions processed before it.
C14_InOrder ==
    \A f \in FlowIds :
        \A i \in Processed(flows'[f]) \ Processed(flows[f]) :
            /\ \A j \in Processed(flows[f]) : j < i
            /\ \A j \in 1 .. (i - 1) : j \in Processed(flows'[f])

\* C14: after a translate(root) that resolved, no other operation of the
\* session having run meanwhile, every selected block is paired, is followed
\* in the tree by its annotation node, which carries the translation obtained
\* for the block's normalized text, and the blocks were processed in order.
C14_AnnotationAfterBlock == []C14_Annotated /\ [][C14_InOrder]_vars

\* A translation of the whole document that resolved: three blocks, each
\* followed by its annotation, the third served from the cache.
C14_Witness ==
    \E f \in FlowIds :
        /\ flows[f].status = "resolved"
        /\ flows[f].blocks = <<1, 2, 3>>
        /\ flows[f].calls = {1, 2}
        /\ \A b \in 1 .. 3 : tree[IndexOf(tree, b) + 1].id = translated[b]
        /\ Len(tree) = Len(Document) + 3

RECURSIVE Instantiated(_, _, _, _)
\* The template from position i on with every placeholder replaced by the
\* value that stands for it, taken as it is.
Instantiated(template, i, text, s) ==
    IF i > Len(template) THEN <<>>
    ELSE IF MatchesAt(template, i, TEXT_PLACEHOLDER)
         THEN text \o Instantiated(template, i + Len(TEXT_PLACEHOLDER), text, s)
    ELSE IF MatchesAt(template, i, FROM_PLACEHOLDER)
         THEN OrElse(s.fromLang, <<"a", "u", "t", "o">>)
              \o Instantiated(template, i + Len(FROM_PLACEHOLDER), text, s)
    ELSE IF MatchesAt(template, i, TO_PLACEHOLDER)
         THEN OrElse(s.toLang, <<"z", "h">>)
              \o Instantiated(template, i + Len(TO_PLACEHOLDER), text, s)
    ELSE <<template[i]>> \o Instantiated(template, i + 1, text, s)

\* C15: the message fillTemplate returns is the template with every
\* occurrence of a placeholder replaced by the literal block text, the source
\* language code or the target language code, whatever characters the block
\* text holds, and with nothing else changed.
C15_LiteralSubstitution ==
    call.op = "fillTemplate" =>
        call.result = Instantiated(call.template, 1, call.text, settings)

\* The step is an operation of the plugin's document session, or the
\* continuation of its translate().
DocStep ==
    \/ TranslateActive
    \/ ClearActive
    \/ ToggleOriginal
    \/ HideOriginalSaved
    \/ \E f \in FlowIds, resp \in PluginResponses : DocResponse(f, resp)

\* The step is an operation of the interface session, or the continuation of
\* its translate().
UiStep ==
    \/ \E window \in Windows : FabPressed(window)
    \/ \E f \in FlowIds, resp \in PluginResponses : UiResponse(f, resp)

\* The annotation nodes of the pairs that are in the tree stay in it, each
\* after the same original.
NodesKept(pairs) ==
    \A n \in Range(pairs) \cap AnnotationIds(tree) :
        /\ InTree(tree', n)
        /\ SiblingOf(tree', IndexOf(tree', n)) = SiblingOf(tree, IndexOf(tree, n))
        /\ tree'[IndexOf(tree', n)].text = tree[IndexOf(tree, n)].text

\* C16: an operation of the document session leaves the settings, the pairs,
\* the cache and the invocations of the interface session as they are and its
\* annotation nodes in the tree, each after its original; so does an
\* operation of the interface session for the document session and for the
\* session the plugin replaced; the roots of the sessions overlap.  The
\* handler that calls updateSettings() on both sessions changes the settings
\* of each and nothing else.
C16_SessionsIndependent ==
    [][/\ DocStep =>
              /\ ui' = ui
              /\ NodesKept(ui.translated)
              /\ \A k \in 1 .. Len(dropped) :
                     dropped'[k] = dropped[k] /\ NodesKept(dropped[k].translated)
       /\ UiStep =>
              /\ DocSession' = DocSession
              /\ NodesKept(translated)
              /\ dropped' = dropped
              /\ \A k \in 1 .. Len(dropped) : NodesKept(dropped[k].translated)
       /\ SkipSelectorsSaved =>
              /\ UNCHANGED <<tree, translated, cache, flows, dropped>>
              /\ ui' = [ui EXCEPT !.settings = ui'.settings]]_vars

\* Both sessions have annotated the first element, which is in the root of
\* each, and the interface session has cleared and translated again since.
C16_Witness ==
    /\ 1 \in DOMAIN translated
    /\ 1 \in DOMAIN ui.translated
    /\ {translated[1], ui.translated[1]} \subseteq AnnotationIds(tree)
    /\ translated[1] # ui.translated[1]
    /\ IndexOf(tree, ui.translated[1]) < IndexOf(tree, translated[1])
    /\ 2 \in DOMAIN ui.translated

\* No translate() of a session the plugin made is under way.
AllSettled ==
    \A f \in FlowIds :
        /\ flows[f].status = "idle"
        /\ ui.flows[f].status = "idle"
        /\ \A k \in 1 .. Len(dropped) : dropped[k].flows[f].status = "idle"

\* C19: once onunload() has run and every translate() has settled, the tree
\* holds no annotation node.
C19_NoOverlayAfterUnload ==
    (plugin.unloaded /\ AllSettled) => AnnotationIds(tree) = {}

\* A step that changes the session's settings is an updateSettings() with the
\* caller's object: it changes nothing else of the session or of the tree and
\* sends no request.  A step that changes the caller's object leaves the
\* session's settings as they are.  A request is sent to the backend the
\* session's settings name.
C17_Frame ==
    /\ settings' # settings =>
           /\ settings' = plugin.settings
           /\ UNCHANGED <<tree, translated, cache, flows>>
    /\ plugin'.settings # plugin.settings => UNCHANGED <<settings, tree, translated, cache, flows>>
    /\ \A f \in FlowIds :
           flows'[f].calls \ flows[f].calls # {} =>
               /\ flows'[f].via = settings.apiType
               /\ configError(settings) = ""

\* C17: updateSettings() changes the settings snapshot only, in any state,
\* also while a translate() is under way: pairs, cache, annotation nodes and
\* hidden flags stay and no request is sent; a change of the caller's
\* settings object does not reach the session without updateSettings().
C17_UpdateSettingsOnly == [][C17_Frame]_vars

\* A translate() that has annotated a block waits for the backend it was
\* started with, while the session's settings, updated since, name the other
\* one and the caller's object has changed once more.
C17_Witness ==
    \E f \in FlowIds :
        /\ flows[f].status = "awaiting"
        /\ flows[f].via # settings.apiType
        /\ plugin.settings # settings
        /\ DOMAIN translated # {}
        /\ \E b \in DOMAIN translated : IsHidden(tree, b) # settings.hideOriginal

\* Every value the cache holds is a non-empty text.
C18_ValuesNonEmpty == \A t \in DOMAIN cache : cache[t].s # <<>>

\* A step keeps every entry of the cache with its value.
C18_EntriesKept ==
    \A t \in DOMAIN cache : t \in DOMAIN cache' /\ cache'[t] = cache[t]

\* C18: the cache only grows: every value stored is non-empty, and no
\* operation, clear(), updateSettings(), a failed, repeated or overlapping
\* translate() included, removes or changes an entry.
C18_CacheOnlyGrows == []C18_ValuesNonEmpty /\ [][C18_EntriesKept]_vars

\* The scope and the download address of a registry entry: its scope, or its
\* id when it has no scope, and its downloadUrl, or its url when it has none,
\* as text and without the whitespace around them.  An entry has a field
\* when the field's value is truthy.
ScopeOf(raw) == Trim(IF raw.scope.truthy THEN raw.scope.s ELSE raw.id.s)
AddressOf(raw) ==
    Trim(IF raw.downloadUrl.truthy THEN raw.downloadUrl.s ELSE raw.url.s)

\* The positions of the entries of a response that have both.
Listed(items) ==
    {i \in 1 .. Len(items) : ScopeOf(items[i]) # <<>> /\ AddressOf(items[i]) # <<>>}

\* The number of listed entries up to position i.
Rank(items, i) == Cardinality({j \in Listed(items) : j <= i})

\* C20: fetchRegistry returns the empty list without a request for an empty
\* url, throws for a status outside 200..299, and otherwise returns, in the
\* order of the response, exactly the entries with a non-empty trimmed scope
\* (the id standing in for a missing scope) and a non-empty trimmed download
\* address, each with a non-empty id, scope and downloadUrl.  (It returns
\* an entry with an empty id when the id of the response is a truthy value
\* that converts to the empty string.)
C20_RegistryEntries ==
    call.op = "fetchRegistry" =>
        LET out == call.out
            items == RegistryItems(call.resp)
        IN  IF call.url = ""
            THEN ~out.requested /\ ~out.threw /\ out.result = <<>>
            ELSE /\ out.requested
                 /\ out.threw <=> call.resp.status \notin 200 .. 299
                 /\ ~out.threw =>
                        /\ Len(out.result) = Cardinality(Listed(items))
                        /\ \A i \in Listed(items) :
                               /\ out.result[Rank(items, i)].scope = ScopeOf(items[i])
                               /\ out.result[Rank(items, i)].downloadUrl = AddressOf(items[i])
                        /\ \A k \in 1 .. Len(out.result) :
                               /\ out.result[k].id # <<>>
                               /\ out.result[k].scope # <<>>
                               /\ out.result[k].downloadUrl # <<>>

====
